---------------------------- MODULE Spec2Model ----------------------------
(***************************************************************************)
(* h2s-proxy: a forward HTTP proxy that routes each request either         *)
(* directly or through a SOCKS5 upstream chosen by CIDR rules.             *)
(*                                                                         *)
(* Text (header names, header values, hosts, CIDR patterns) is a sequence  *)
(* of one-character strings, so that canonicalisation, joining and parsing *)
(* are computed character by character as the Go code computes them.       *)
(*                                                                         *)
(* IP addresses are scaled down: an IPv4 literal is AddrBits binary        *)
(* digits, an IPv6 literal is ":" followed by AddrBits+1 binary digits,    *)
(* and a parsed address is its sequence of bits (IPv4-mapped IPv6          *)
(* addresses, which Go folds to IPv4 with To4, have no counterpart here).  *)
(***************************************************************************)
EXTENDS Integers, Sequences, FiniteSets, TLC

\* ------------------------------------------------------------ bounds
\* Width of an IPv4 address in bits (an IPv6 address has one bit more).
AddrBits == 2
\* Longest rule list of a profile.
MaxRules == 2
\* Longest pattern list of a rule.
MaxPatterns == 2
\* Longest wire header list of a request or response.
MaxHeaders == 2
\* Longest upstream response body, in chunks.
MaxBody == 2

\* ------------------------------------------------------------ text
Lower == <<"a","b","c","d","e","f","g","h","i","j","k","l","m",
           "n","o","p","q","r","s","t","u","v","w","x","y","z">>
Upper == <<"A","B","C","D","E","F","G","H","I","J","K","L","M",
           "N","O","P","Q","R","S","T","U","V","W","X","Y","Z">>
Digits == <<"0","1","2","3","4","5","6","7","8","9">>

IndexIn(c, tbl) == IF \E i \in 1..Len(tbl) : tbl[i] = c
                   THEN CHOOSE i \in 1..Len(tbl) : tbl[i] = c
                   ELSE 0

ToUpper(c) == IF IndexIn(c, Lower) > 0 THEN Upper[IndexIn(c, Lower)] ELSE c
ToLower(c) == IF IndexIn(c, Upper) > 0 THEN Lower[IndexIn(c, Upper)] ELSE c

\* strings.Join(elems, sep)
RECURSIVE Join(_, _)
Join(elems, sep) ==
    IF Len(elems) = 0 THEN <<>>
    ELSE IF Len(elems) = 1 THEN elems[1]
    ELSE elems[1] \o sep \o Join(Tail(elems), sep)

\* textproto.CanonicalMIMEHeaderKey, as http.Header's Set, Add and Del apply
\* it to their key: the first letter and every letter after a hyphen in
\* upper case, every other letter in lower case.
CanonicalMIMEHeaderKey(s) ==
    [i \in 1..Len(s) |->
        IF i = 1 \/ s[i-1] = "-" THEN ToUpper(s[i]) ELSE ToLower(s[i])]

\* ------------------------------------------------------------ http.Header
\* An http.Header is a map from key to a non-empty list of values: here a
\* function whose domain is the set of keys present.
EmptyHeader == [k \in {} |-> <<>>]

\* Mutant: delete(header, key), the key as written.
HeaderDel_AsWritten(header, key) == [k \in DOMAIN header \ {key} |-> header[k]]

HeaderDel(header, key) ==
    [k \in DOMAIN header \ {CanonicalMIMEHeaderKey(key)} |-> header[k]]

HeaderSet(header, key, value) ==
    LET ck == CanonicalMIMEHeaderKey(key)
    IN  [k \in DOMAIN header \cup {ck} |->
            IF k = ck THEN <<value>> ELSE header[k]]

HeaderAdd(header, key, value) ==
    LET ck == CanonicalMIMEHeaderKey(key)
    IN  [k \in DOMAIN header \cup {ck} |->
            IF k = ck
            THEN (IF ck \in DOMAIN header THEN header[ck] ELSE <<>>) \o <<value>>
            ELSE header[k]]

\* The header map net/http builds from the header lines of a message, in
\* wire order: every line is added under its canonical key.
RECURSIVE ReadMIMEHeader(_)
ReadMIMEHeader(lines) ==
    IF Len(lines) = 0 THEN EmptyHeader
    ELSE LET n == Len(lines)
         IN  HeaderAdd(ReadMIMEHeader(SubSeq(lines, 1, n - 1)),
                       lines[n].name, lines[n].value)

K_ProxyConnection == <<"P","r","o","x","y","-","C","o","n","n","e","c","t","i","o","n">>
K_KeepAlive == <<"K","e","e","p","-","A","l","i","v","e">>
K_TE == <<"T","E">>
K_TransferEncoding == <<"T","r","a","n","s","f","e","r","-","E","n","c","o","d","i","n","g">>
K_Upgrade == <<"U","p","g","r","a","d","e">>
K_XForwardedFor == <<"X","-","F","o","r","w","a","r","d","e","d","-","F","o","r">>

hopByHopHeaders ==
    <<K_ProxyConnection, K_KeepAlive, K_TE, K_TransferEncoding, K_Upgrade>>

RECURSIVE DelAll(_, _, _)
DelAll(header, names, i) ==
    IF i > Len(names) THEN header
    ELSE DelAll(HeaderDel(header, names[i]), names, i + 1)

removeHopByHopHeader(header) == DelAll(header, hopByHopHeaders, 1)

CommaSpace == <<",", " ">>

addHost2XForwardHeader(header, host) ==
    LET nextValue ==
            IF K_XForwardedFor \in DOMAIN header
            THEN Join(header[K_XForwardedFor], CommaSpace) \o CommaSpace \o host
            ELSE <<>>
    IN  HeaderSet(header, K_XForwardedFor, nextValue)

\* copyHeader ranges over src (a Go map: the order of keys is unspecified,
\* and no key's values depend on another key's) and adds each value to dst.
\* Mutant: each value is set, not added.
RECURSIVE AddValues_Set(_, _, _, _)
AddValues_Set(dst, k, vv, i) ==
    IF i > Len(vv) THEN dst
    ELSE AddValues_Set(HeaderSet(dst, k, vv[i]), k, vv, i + 1)

RECURSIVE AddValues(_, _, _, _)
AddValues(dst, k, vv, i) ==
    IF i > Len(vv) THEN dst
    ELSE AddValues(HeaderAdd(dst, k, vv[i]), k, vv, i + 1)

RECURSIVE CopyKeys(_, _, _)
CopyKeys(dst, src, keys) ==
    IF keys = {} THEN dst
    ELSE LET k == CHOOSE x \in keys : TRUE
         IN  CopyKeys(AddValues(dst, k, src[k], 1), src, keys \ {k})

copyHeader(dst, src) == CopyKeys(dst, src, DOMAIN src)

\* ------------------------------------------------------------ package net
IsBit(c) == c \in {"0", "1"}
BitOf(c) == IF c = "1" THEN 1 ELSE 0

\* nil: what net.ParseIP returns for text that is no IP literal.
NilIP == <<>>

ParseBits(t, width) ==
    IF Len(t) = width /\ \A i \in 1..Len(t) : IsBit(t[i])
    THEN [i \in 1..width |-> BitOf(t[i])]
    ELSE NilIP

HasColon(t) == \E i \in 1..Len(t) : t[i] = ":"

\* net.ParseIP: an IPv6 literal if the text holds a colon, else IPv4.
ParseIP(t) ==
    IF HasColon(t)
    THEN (IF Len(t) >= 1 /\ t[1] = ":" THEN ParseBits(Tail(t), AddrBits + 1) ELSE NilIP)
    ELSE ParseBits(t, AddrBits)

\* dtoi: the decimal number the whole text spells, -1 if it spells none.
RECURSIVE Dtoi(_)
Dtoi(t) ==
    IF Len(t) = 0 THEN -1
    ELSE LET d == IndexIn(t[Len(t)], Digits) - 1
         IN  IF d < 0 THEN -1
             ELSE IF Len(t) = 1 THEN d
             ELSE LET hi == Dtoi(SubSeq(t, 1, Len(t) - 1))
                  IN  IF hi < 0 THEN -1 ELSE 10 * hi + d

\* net.CIDRMask(ones, bits)
CIDRMask(ones, bits) == [i \in 1..bits |-> IF i <= ones THEN 1 ELSE 0]

\* IP.Mask
MaskIP(ip, mask) == [i \in 1..Len(ip) |-> ip[i] * mask[i]]

SlashIndex(t) == IF \E i \in 1..Len(t) : t[i] = "/"
                 THEN CHOOSE i \in 1..Len(t) :
                          t[i] = "/" /\ \A j \in 1..(i-1) : t[j] # "/"
                 ELSE 0

\* net.ParseCIDR: [err, IP (the network number), Mask].
ParseCIDR(s) ==
    LET i    == SlashIndex(s)
        addr == SubSeq(s, 1, i - 1)
        mask == SubSeq(s, i + 1, Len(s))
        ip   == ParseIP(addr)
        n    == Dtoi(mask)
    IN  IF i = 0 \/ ip = NilIP \/ n < 0 \/ n > Len(ip)
        THEN [err |-> TRUE, IP |-> NilIP, Mask |-> <<>>]
        ELSE [err |-> FALSE,
              IP   |-> MaskIP(ip, CIDRMask(n, Len(ip))),
              Mask |-> CIDRMask(n, Len(ip))]

\* Mutant: an address that did not parse lies in every block.
Contains_NilInAll(ipNet, ip) ==
    IF ip = NilIP THEN TRUE
    ELSE IF Len(ip) # Len(ipNet.IP) THEN FALSE
    ELSE \A i \in 1..Len(ip) :
            ipNet.IP[i] * ipNet.Mask[i] = ip[i] * ipNet.Mask[i]

\* IPNet.Contains
Contains(ipNet, ip) ==
    IF Len(ip) # Len(ipNet.IP) THEN FALSE
    ELSE \A i \in 1..Len(ip) :
            ipNet.IP[i] * ipNet.Mask[i] = ip[i] * ipNet.Mask[i]

\* ------------------------------------------------------------ package domain
ErrNil == "nil"
ErrNotFoundRule == "not found rule"
ErrParseCIDR == "invalid CIDR address"

\* Rule{}: the zero value MatchRule returns beside an error.
ZeroRule == [Name |-> "", ProxyType |-> "", ProxyIP |-> "", Port |-> "",
             Patterns |-> <<>>]

\* The result of the inner loop over one rule's patterns when it neither
\* returned a rule nor an error: the outer loop goes on.
Continue == "continue"

\* Mutant: a pattern that does not parse is skipped.
RECURSIVE MatchPatterns_SkipMalformed(_, _, _)
MatchPatterns_SkipMalformed(rule, path, j) ==
    IF j > Len(rule.Patterns) THEN [rule |-> ZeroRule, err |-> Continue]
    ELSE LET ip   == ParseIP(path)
             cidr == ParseCIDR(rule.Patterns[j])
         IN  IF ~cidr.err /\ Contains(cidr, ip) THEN [rule |-> rule, err |-> ErrNil]
             ELSE MatchPatterns_SkipMalformed(rule, path, j + 1)

RECURSIVE MatchPatterns(_, _, _)
MatchPatterns(rule, path, j) ==
    IF j > Len(rule.Patterns) THEN [rule |-> ZeroRule, err |-> Continue]
    ELSE LET ip   == ParseIP(path)
             cidr == ParseCIDR(rule.Patterns[j])
         IN  IF cidr.err THEN [rule |-> ZeroRule, err |-> ErrParseCIDR]
             ELSE IF Contains(cidr, ip) THEN [rule |-> rule, err |-> ErrNil]
             ELSE MatchPatterns(rule, path, j + 1)

RECURSIVE MatchRules(_, _, _)
MatchRules(p, path, i) ==
    IF i > Len(p.Rules) THEN [rule |-> ZeroRule, err |-> ErrNotFoundRule]
    ELSE LET r == MatchPatterns(p.Rules[i], path, 1)
         IN  IF r.err = Continue THEN MatchRules(p, path, i + 1) ELSE r

\* Mutant: the rules are tried from the last to the first.
MatchRule_Reversed(p, path) ==
    MatchRules([Rules |-> [i \in 1..Len(p.Rules) |-> p.Rules[Len(p.Rules) + 1 - i]]],
               path, 1)

\* Profile.MatchRule
MatchRule(p, path) == MatchRules(p, path, 1)

\* ------------------------------------------------------------ inputs
Ones    == [i \in 1..AddrBits |-> "1"]
Zeros   == [i \in 1..AddrBits |-> "0"]
ZeroOne == [i \in 1..AddrBits |-> IF i = AddrBits THEN "1" ELSE "0"]
OneZero == [i \in 1..AddrBits |-> IF i = 1 THEN "1" ELSE "0"]
V6Host  == <<":">> \o [i \in 1..(AddrBits + 1) |-> "1"]
DNSName == <<"h", "o", "s", "t">>

DecimalText(n) == <<Digits[n + 1]>>

\* CIDR patterns: a block given by an address that is not its network
\* number, a single host, text that is no CIDR, a prefix longer than the
\* address.
P_UpperHalf == Ones \o <<"/">> \o DecimalText(1)
P_ZeroOne   == ZeroOne \o <<"/">> \o DecimalText(AddrBits)
P_NotACidr  == <<"n", "o", "t", "-", "a", "-", "c", "i", "d", "r">>
P_TooLong   == Zeros \o <<"/">> \o DecimalText(AddrBits + 1)

Patterns == {P_UpperHalf, P_ZeroOne, P_NotACidr}
Hosts    == {Ones, OneZero, ZeroOne, Zeros, V6Host, DNSName}

SeqsUpTo(S, n) == UNION {[1..k -> S] : k \in 0..n}

\* net.SplitHostPort: [err, host, port].
LastIndexOf(t, c) == IF \E i \in 1..Len(t) : t[i] = c
                     THEN CHOOSE i \in 1..Len(t) :
                              t[i] = c /\ \A j \in (i+1)..Len(t) : t[j] # c
                     ELSE 0
FirstIndexOf(t, c) == IF \E i \in 1..Len(t) : t[i] = c
                      THEN CHOOSE i \in 1..Len(t) :
                               t[i] = c /\ \A j \in 1..(i-1) : t[j] # c
                      ELSE 0
AddrErr == [err |-> TRUE, host |-> <<>>, port |-> <<>>]

SplitHostPort(hostport) ==
    LET i == LastIndexOf(hostport, ":")
    IN  IF i = 0 THEN AddrErr
        ELSE IF hostport[1] = "["
        THEN LET end == FirstIndexOf(hostport, "]")
             IN  IF end = 0 \/ end = Len(hostport) \/ end + 1 # i THEN AddrErr
                 ELSE IF FirstIndexOf(SubSeq(hostport, 2, Len(hostport)), "[") > 0
                         \/ FirstIndexOf(SubSeq(hostport, end + 1, Len(hostport)), "]") > 0
                 THEN AddrErr
                 ELSE [err |-> FALSE, host |-> SubSeq(hostport, 2, end - 1),
                       port |-> SubSeq(hostport, i + 1, Len(hostport))]
        ELSE LET host == SubSeq(hostport, 1, i - 1)
             IN  IF FirstIndexOf(host, ":") > 0
                    \/ FirstIndexOf(hostport, "[") > 0
                    \/ FirstIndexOf(hostport, "]") > 0
                 THEN AddrErr
                 ELSE [err |-> FALSE, host |-> host,
                       port |-> SubSeq(hostport, i + 1, Len(hostport))]

\* ------------------------------------------------------------ net/http
StatusOK == 200
StatusBadRequest == 400
StatusInternalServerError == 500

K_ContentLength == <<"C","o","n","t","e","n","t","-","L","e","n","g","t","h">>
K_ContentType == <<"C","o","n","t","e","n","t","-","T","y","p","e">>
K_XContentTypeOptions == <<"X","-","C","o","n","t","e","n","t","-","T","y","p","e","-","O","p","t","i","o","n","s">>

\* A fresh http.ResponseWriter: no header, no status line written, no body.
\* writeHeaderCalls counts the calls of WriteHeader, sent is the header
\* as it stood when the status line was written.
NewResponseWriter ==
    [Header |-> EmptyHeader, wroteHeader |-> FALSE, status |-> 0,
     sent |-> EmptyHeader, body |-> <<>>, writeHeaderCalls |-> 0]

\* ResponseWriter.WriteHeader: the first call writes the status line and
\* the header; a later call is superfluous and changes nothing.
WriteHeader(w, code) ==
    IF w.wroteHeader
    THEN [w EXCEPT !.writeHeaderCalls = @ + 1]
    ELSE [w EXCEPT !.wroteHeader = TRUE, !.status = code, !.sent = w.Header,
                   !.writeHeaderCalls = @ + 1]

\* ResponseWriter.Write: writes the status line (200) if none was written.
Write(w, data) ==
    LET w1 == IF w.wroteHeader THEN w
              ELSE [w EXCEPT !.wroteHeader = TRUE, !.status = StatusOK,
                             !.sent = w.Header]
    IN  [w1 EXCEPT !.body = Append(@, data)]

\* http.Error(w, error, code)
HttpError(w, msg, code) ==
    LET h1 == HeaderDel(w.Header, K_ContentLength)
        h2 == HeaderSet(h1, K_ContentType, <<"text/plain; charset=utf-8">>)
        h3 == HeaderSet(h2, K_XContentTypeOptions, <<"nosniff">>)
        w1 == WriteHeader([w EXCEPT !.Header = h3], code)
    IN  Write(w1, msg)

MsgUnsupported(scheme) == <<"unsupported protocal scheme ", scheme>>
MsgUnexpected == <<"unexpected error">>

\* http.Client{} and the client built on proxy.SOCKS5("tcp", address, nil,
\* proxy.Direct).
DirectClient == [kind |-> "direct", address |-> <<>>, auth |-> "nil"]
Socks5Client(proxyIP, port) ==
    [kind |-> "socks5", address |-> <<proxyIP, ":", port>>, auth |-> "nil"]
NoClient == [kind |-> "none", address |-> <<>>, auth |-> "nil"]
\* The dial behind client.Do takes a port that is empty (the scheme's
\* default is used) or a decimal number up to 65535; with any other port it
\* fails before a connection to the target exists.
DialablePort(port) == port = <<>> \/ Dtoi(port) \in 0..65535

\* ------------------------------------------------------------ served inputs
\* Request targets: the authority (req.URL.Host) of a request.
PortText == <<":", "8", "0">>
A_Ones    == Ones \o PortText
A_ZeroOne == ZeroOne \o PortText
A_Name    == DNSName \o PortText
A_V6      == <<"[">> \o V6Host \o <<"]">> \o PortText
A_NoPort  == DNSName
A_PortOutOfRange == Zeros \o <<":", "9", "9", "9", "9", "9">>
ClientAddr == <<"c", "l", "i", "e", "n", "t">>

Line(n, v) == [name |-> n, value |-> v]
W_te == <<"t","e">>
W_xff == <<"x","-","f","o","r","w","a","r","d","e","d","-","f","o","r">>
W_Accept == <<"A","c","c","e","p","t">>
W_KEEPALIVE == <<"K","E","E","P","-","A","L","I","V","E">>
V_a == <<"a">>
V_b == <<"b">>
V_ab == <<"a", ",", " ", "b">>

\* The requests served: target scheme, target authority, header lines.
Request(scheme, authority, lines) ==
    [Scheme |-> scheme, Host |-> authority, lines |-> lines]
L_Request  == <<Line(W_xff, V_a), Line(W_te, V_b)>>
L_Response == <<Line(W_KEEPALIVE, V_a), Line(W_Accept, V_b)>>
ServedRequests ==
    {Request("ftp", A_Ones, <<>>),
     Request("http", A_NoPort, <<>>),
     Request("http", A_Ones, L_Request),
     Request("https", A_ZeroOne, <<>>),
     Request("http", A_Name, L_Request),
     Request("https", A_V6, <<>>),
     Request("http", A_PortOutOfRange, <<>>)}

\* The upstream responses: status code, header and body chunks.
BodyOf(n) == [i \in 1..n |-> Digits[i + 1]]
Responses ==
    {[StatusCode |-> 500, Header |-> ReadMIMEHeader(<<>>), Body |-> BodyOf(0)],
     [StatusCode |-> 200, Header |-> ReadMIMEHeader(L_Response),
      Body |-> BodyOf(MaxBody)]}
NoResponse == [StatusCode |-> 0, Header |-> EmptyHeader, Body |-> <<>>]

\* The rules the served profiles are made of.
R_internal == [Name |-> "internal", ProxyType |-> "socks5",
               ProxyIP |-> "127.0.0.1", Port |-> "1080",
               Patterns |-> <<P_UpperHalf>>]
R_lab      == [Name |-> "lab", ProxyType |-> "http",
               ProxyIP |-> "10.0.0.9", Port |-> "3128",
               Patterns |-> <<P_ZeroOne>>]
R_broken   == [Name |-> "broken", ProxyType |-> "socks5",
               ProxyIP |-> "127.0.0.2", Port |-> "1081",
               Patterns |-> <<P_NotACidr, P_UpperHalf>>]
R_dmz      == [Name |-> "dmz", ProxyType |-> "socks5",
               ProxyIP |-> "127.0.0.3", Port |-> "1082",
               Patterns |-> <<P_ZeroOne, P_TooLong>>]
ServedRules == {R_internal, R_lab, R_broken, R_dmz}
ServedProfiles ==
    {[Rules |-> rs] : rs \in {q \in SeqsUpTo(ServedRules, MaxRules) :
                                \A i, j \in 1..Len(q) : q[i] = q[j] => i = j}}

\* ------------------------------------------------------------ state
\* The goroutines the server runs proxyHandler on, one per request.
Handlers == {"g1", "g2"}

VARIABLES
    profile,   \* H2SProxyServer.profile, loaded before the listener starts
    running,   \* the process is alive
    pc,        \* each handler's position in proxyHandler
    req,       \* each handler's *http.Request
    wr,        \* each handler's http.ResponseWriter
    loc,       \* each handler's locals: host, rule, err, client, res, copied
    outbound,  \* the client.Do calls each handler has issued for its request
    trace,     \* the steps each handler has taken for its request, in order
    call       \* a call of one helper function on given arguments

vars == <<profile, running, pc, req, wr, loc, outbound, trace, call>>

NoRequest == [Scheme |-> "", Host |-> <<>>, Header |-> EmptyHeader,
              RequestURI |-> <<>>, RemoteAddr |-> <<>>]
NoLocals  == [host |-> <<>>, rule |-> ZeroRule, err |-> ErrNil,
              client |-> NoClient, res |-> NoResponse, copied |-> 0]
NoCall    == [fn |-> "none", a |-> <<>>, b |-> <<>>, done |-> TRUE, ret |-> <<>>]

HandlersIdle ==
    /\ running = TRUE
    /\ pc = [g \in Handlers |-> "idle"]
    /\ req = [g \in Handlers |-> NoRequest]
    /\ wr = [g \in Handlers |-> NewResponseWriter]
    /\ loc = [g \in Handlers |-> NoLocals]
    /\ outbound = [g \in Handlers |-> <<>>]
    /\ trace = [g \in Handlers |-> <<>>]

Init ==
    /\ profile \in ServedProfiles
    /\ HandlersIdle
    /\ call = NoCall

\* ------------------------------------------------------------ proxyHandler
\* The server reads a request and starts proxyHandler on it in a goroutine
\* of its own; a goroutine whose handler has returned takes the next one.
Accept(g) ==
    /\ running
    /\ pc[g] \in {"idle", "done"}
    /\ \E r \in ServedRequests :
          req' = [req EXCEPT ![g] =
                    [Scheme |-> r.Scheme, Host |-> r.Host,
                     Header |-> ReadMIMEHeader(r.lines),
                     RequestURI |-> <<r.Scheme, "://">> \o r.Host,
                     RemoteAddr |-> ClientAddr \o PortText]]
    /\ wr' = [wr EXCEPT ![g] = NewResponseWriter]
    /\ loc' = [loc EXCEPT ![g] = NoLocals]
    /\ outbound' = [outbound EXCEPT ![g] = <<>>]
    /\ pc' = [pc EXCEPT ![g] = "scheme"]
    /\ trace' = [trace EXCEPT ![g] = <<>>]
    /\ UNCHANGED <<profile, running, call>>

\* Mutant: the return after the 400 is missing.
ValidateScheme_NoReturn(g) ==
    /\ running
    /\ pc[g] = "scheme"
    /\ IF req[g].Scheme # "http" /\ req[g].Scheme # "https"
       THEN wr' = [wr EXCEPT ![g] =
                     HttpError(@, MsgUnsupported(req[g].Scheme), StatusBadRequest)]
       ELSE UNCHANGED wr
    /\ pc' = [pc EXCEPT ![g] = "split"]
    /\ trace' = [trace EXCEPT ![g] = Append(@, "ValidateScheme")]
    /\ UNCHANGED <<profile, running, req, loc, outbound, call>>

\* main.go 74-79
ValidateScheme(g) ==
    /\ running
    /\ pc[g] = "scheme"
    /\ IF req[g].Scheme # "http" /\ req[g].Scheme # "https"
       THEN /\ wr' = [wr EXCEPT ![g] =
                        HttpError(@, MsgUnsupported(req[g].Scheme), StatusBadRequest)]
            /\ pc' = [pc EXCEPT ![g] = "done"]
       ELSE /\ pc' = [pc EXCEPT ![g] = "split"]
            /\ UNCHANGED wr
    /\ trace' = [trace EXCEPT ![g] = Append(@, "ValidateScheme")]
    /\ UNCHANGED <<profile, running, req, loc, outbound, call>>

\* Mutant: the return after the 500 of a failed split is missing.
ExtractHost_NoReturn(g) ==
    /\ running
    /\ pc[g] = "split"
    /\ LET s == SplitHostPort(req[g].Host)
       IN  IF s.err
           THEN /\ wr' = [wr EXCEPT ![g] =
                            HttpError(@, MsgUnexpected, StatusInternalServerError)]
                /\ UNCHANGED loc
           ELSE /\ loc' = [loc EXCEPT ![g].host = s.host]
                /\ UNCHANGED wr
    /\ pc' = [pc EXCEPT ![g] = "sanitize"]
    /\ trace' = [trace EXCEPT ![g] = Append(@, "ExtractHost")]
    /\ UNCHANGED <<profile, running, req, outbound, call>>

\* main.go 81-86
ExtractHost(g) ==
    /\ running
    /\ pc[g] = "split"
    /\ LET s == SplitHostPort(req[g].Host)
       IN  IF s.err
           THEN /\ wr' = [wr EXCEPT ![g] =
                            HttpError(@, MsgUnexpected, StatusInternalServerError)]
                /\ pc' = [pc EXCEPT ![g] = "done"]
                /\ UNCHANGED loc
           ELSE /\ loc' = [loc EXCEPT ![g].host = s.host]
                /\ pc' = [pc EXCEPT ![g] = "sanitize"]
                /\ UNCHANGED wr
    /\ trace' = [trace EXCEPT ![g] = Append(@, "ExtractHost")]
    /\ UNCHANGED <<profile, running, req, outbound, call>>

\* part_001 69-74: log.Fatalf logs and calls os.Exit(1); the lines after it
\* never run.
ExtractHostFatal(g) ==
    /\ running
    /\ pc[g] = "split"
    /\ LET s == SplitHostPort(req[g].Host)
       IN  IF s.err
           THEN /\ running' = FALSE
                /\ UNCHANGED <<pc, loc>>
           ELSE /\ loc' = [loc EXCEPT ![g].host = s.host]
                /\ pc' = [pc EXCEPT ![g] = "sanitize"]
                /\ UNCHANGED running
    /\ trace' = [trace EXCEPT ![g] = Append(@, "ExtractHost")]
    /\ UNCHANGED <<profile, req, wr, outbound, call>>

\* main.go 88-89
SanitizeRequest(g) ==
    /\ running
    /\ pc[g] = "sanitize"
    /\ req' = [req EXCEPT ![g].Header =
                 addHost2XForwardHeader(removeHopByHopHeader(@), loc[g].host)]
    /\ pc' = [pc EXCEPT ![g] = "match"]
    /\ trace' = [trace EXCEPT ![g] = Append(@, "SanitizeRequest")]
    /\ UNCHANGED <<profile, running, wr, loc, outbound, call>>

\* Mutant: a matched rule is moved to the front of the profile's rules.
MatchStep_Promote(g) ==
    /\ running
    /\ pc[g] = "match"
    /\ LET m == MatchRule(profile, loc[g].host)
       IN  IF m.err # ErrNil /\ m.err # ErrNotFoundRule
           THEN /\ wr' = [wr EXCEPT ![g] =
                            HttpError(@, MsgUnexpected, StatusInternalServerError)]
                /\ loc' = [loc EXCEPT ![g].rule = m.rule, ![g].err = m.err]
                /\ pc' = [pc EXCEPT ![g] = "done"]
                /\ UNCHANGED <<req, profile>>
           ELSE /\ loc' = [loc EXCEPT ![g].rule = m.rule, ![g].err = m.err]
                /\ req' = [req EXCEPT ![g].RequestURI = <<>>]
                /\ pc' = [pc EXCEPT ![g] = "select"]
                /\ profile' =
                     IF m.err = ErrNil
                     THEN [Rules |-> <<m.rule>> \o
                             SelectSeq(profile.Rules, LAMBDA r : r # m.rule)]
                     ELSE profile
                /\ UNCHANGED wr
    /\ trace' = [trace EXCEPT ![g] = Append(@, "MatchRule")]
    /\ UNCHANGED <<running, outbound, call>>

\* main.go 91-102
MatchStep(g) ==
    /\ running
    /\ pc[g] = "match"
    /\ LET m == MatchRule(profile, loc[g].host)
       IN  IF m.err # ErrNil /\ m.err # ErrNotFoundRule
           THEN /\ wr' = [wr EXCEPT ![g] =
                            HttpError(@, MsgUnexpected, StatusInternalServerError)]
                /\ loc' = [loc EXCEPT ![g].rule = m.rule, ![g].err = m.err]
                /\ pc' = [pc EXCEPT ![g] = "done"]
                /\ UNCHANGED req
           ELSE /\ loc' = [loc EXCEPT ![g].rule = m.rule, ![g].err = m.err]
                /\ req' = [req EXCEPT ![g].RequestURI = <<>>]
                /\ pc' = [pc EXCEPT ![g] = "select"]
                /\ UNCHANGED wr
    /\ trace' = [trace EXCEPT ![g] = Append(@, "MatchRule")]
    /\ UNCHANGED <<profile, running, outbound, call>>

\* Mutant: the SOCKS5 client is bound to the upstream of the profile's
\* first rule, whichever rule matched.
SelectTransport_FirstRule(g) ==
    /\ running
    /\ pc[g] = "select"
    /\ IF loc[g].err = ErrNil
       THEN \E built \in BOOLEAN :
              IF built
              THEN /\ loc' = [loc EXCEPT ![g].client =
                                Socks5Client(profile.Rules[1].ProxyIP,
                                             profile.Rules[1].Port)]
                   /\ pc' = [pc EXCEPT ![g] = "do"]
                   /\ UNCHANGED wr
              ELSE /\ wr' = [wr EXCEPT ![g] =
                               HttpError(@, MsgUnexpected, StatusInternalServerError)]
                   /\ pc' = [pc EXCEPT ![g] = "done"]
                   /\ UNCHANGED loc
       ELSE /\ loc' = [loc EXCEPT ![g].client = DirectClient]
            /\ pc' = [pc EXCEPT ![g] = "do"]
            /\ UNCHANGED wr
    /\ trace' = [trace EXCEPT ![g] = Append(@, "SelectTransport")]
    /\ UNCHANGED <<profile, running, req, outbound, call>>

\* main.go 104-123. proxy.SOCKS5 returns a dialer or an error; which one is
\* the library's to decide.
SelectTransport(g) ==
    /\ running
    /\ pc[g] = "select"
    /\ IF loc[g].err = ErrNil
       THEN \E built \in BOOLEAN :
              IF built
              THEN /\ loc' = [loc EXCEPT ![g].client =
                                Socks5Client(loc[g].rule.ProxyIP, loc[g].rule.Port)]
                   /\ pc' = [pc EXCEPT ![g] = "do"]
                   /\ UNCHANGED wr
              ELSE /\ wr' = [wr EXCEPT ![g] =
                               HttpError(@, MsgUnexpected, StatusInternalServerError)]
                   /\ pc' = [pc EXCEPT ![g] = "done"]
                   /\ UNCHANGED loc
       ELSE /\ loc' = [loc EXCEPT ![g].client = DirectClient]
            /\ pc' = [pc EXCEPT ![g] = "do"]
            /\ UNCHANGED wr
    /\ trace' = [trace EXCEPT ![g] = Append(@, "SelectTransport")]
    /\ UNCHANGED <<profile, running, req, outbound, call>>

\* main.go 124: client.Do(req) sends the request and blocks.
IssueRequest(g) ==
    /\ running
    /\ pc[g] = "do"
    /\ outbound' = [outbound EXCEPT ![g] =
                      Append(@, [client |-> loc[g].client, Host |-> req[g].Host,
                                 Header |-> req[g].Header])]
    /\ pc' = [pc EXCEPT ![g] = "await"]
    /\ trace' = [trace EXCEPT ![g] = Append(@, "Do")]
    /\ UNCHANGED <<profile, running, req, wr, loc, call>>

\* Mutant: the handler returns on a failed request without an answer.
UpstreamFails_Silent(g) ==
    /\ running
    /\ pc[g] = "await"
    /\ pc' = [pc EXCEPT ![g] = "done"]
    /\ trace' = [trace EXCEPT ![g] = Append(@, "DoError")]
    /\ UNCHANGED <<profile, running, req, wr, loc, outbound, call>>

\* Mutant: a failed SOCKS5 request is tried again through a direct client.
UpstreamFails_Fallback(g) ==
    /\ running
    /\ pc[g] = "await"
    /\ IF loc[g].client.kind = "socks5"
       THEN /\ loc' = [loc EXCEPT ![g].client = DirectClient]
            /\ pc' = [pc EXCEPT ![g] = "do"]
            /\ UNCHANGED wr
       ELSE /\ wr' = [wr EXCEPT ![g] =
                        HttpError(@, MsgUnexpected, StatusInternalServerError)]
            /\ pc' = [pc EXCEPT ![g] = "done"]
            /\ UNCHANGED loc
    /\ trace' = [trace EXCEPT ![g] = Append(@, "DoError")]
    /\ UNCHANGED <<profile, running, req, outbound, call>>

\* main.go 124-129: client.Do returns an error.
UpstreamFails(g) ==
    /\ running
    /\ pc[g] = "await"
    /\ wr' = [wr EXCEPT ![g] =
                HttpError(@, MsgUnexpected, StatusInternalServerError)]
    /\ pc' = [pc EXCEPT ![g] = "done"]
    /\ trace' = [trace EXCEPT ![g] = Append(@, "DoError")]
    /\ UNCHANGED <<profile, running, req, loc, outbound, call>>

\* main.go 124: client.Do returns a response; it has none to return if the
\* target could not be dialled.
UpstreamResponds(g) ==
    /\ running
    /\ pc[g] = "await"
    /\ DialablePort(SplitHostPort(req[g].Host).port)
    /\ \E res \in Responses : loc' = [loc EXCEPT ![g].res = res]
    /\ pc' = [pc EXCEPT ![g] = "relay"]
    /\ trace' = [trace EXCEPT ![g] = Append(@, "DoResponse")]
    /\ UNCHANGED <<profile, running, req, wr, outbound, call>>

\* Mutant: the response header is copied as it came from upstream.
RelayHeader_NoStrip(g) ==
    /\ running
    /\ pc[g] = "relay"
    /\ wr' = [wr EXCEPT ![g] =
                WriteHeader([@ EXCEPT !.Header = copyHeader(@, loc[g].res.Header)],
                            loc[g].res.StatusCode)]
    /\ pc' = [pc EXCEPT ![g] = "copy"]
    /\ trace' = [trace EXCEPT ![g] = Append(@, "RelayHeader")]
    /\ UNCHANGED <<profile, running, req, loc, outbound, call>>

\* main.go 132-134
RelayHeader(g) ==
    /\ running
    /\ pc[g] = "relay"
    /\ LET h == removeHopByHopHeader(loc[g].res.Header)
       IN  /\ loc' = [loc EXCEPT ![g].res.Header = h]
           /\ wr' = [wr EXCEPT ![g] =
                       WriteHeader([@ EXCEPT !.Header = copyHeader(@, h)],
                                   loc[g].res.StatusCode)]
    /\ pc' = [pc EXCEPT ![g] = "copy"]
    /\ trace' = [trace EXCEPT ![g] = Append(@, "RelayHeader")]
    /\ UNCHANGED <<profile, running, req, outbound, call>>

\* main.go 135: io.Copy moves the next chunk of res.Body to the client.
CopyChunk(g) ==
    /\ running
    /\ pc[g] = "copy"
    /\ loc[g].copied < Len(loc[g].res.Body)
    /\ wr' = [wr EXCEPT ![g] = Write(@, loc[g].res.Body[loc[g].copied + 1])]
    /\ loc' = [loc EXCEPT ![g].copied = @ + 1]
    /\ trace' = [trace EXCEPT ![g] = Append(@, "CopyChunk")]
    /\ UNCHANGED <<profile, running, pc, req, outbound, call>>

\* main.go 135, 141: io.Copy reaches the end of res.Body; the handler returns.
CopyEnds(g) ==
    /\ running
    /\ pc[g] = "copy"
    /\ loc[g].copied = Len(loc[g].res.Body)
    /\ pc' = [pc EXCEPT ![g] = "done"]
    /\ trace' = [trace EXCEPT ![g] = Append(@, "CopyEnd")]
    /\ UNCHANGED <<profile, running, req, wr, loc, outbound, call>>

\* main.go 135-140: io.Copy returns an error. Reading res.Body failed and
\* the client still takes what http.Error writes, or writing to the client
\* failed and it takes nothing more.
CopyFails(g) ==
    /\ running
    /\ pc[g] = "copy"
    /\ \E clientTakes \in BOOLEAN :
          LET w == HttpError(wr[g], MsgUnexpected, StatusInternalServerError)
          IN  wr' = [wr EXCEPT ![g] =
                       IF clientTakes THEN w ELSE [w EXCEPT !.body = wr[g].body]]
    /\ pc' = [pc EXCEPT ![g] = "done"]
    /\ trace' = [trace EXCEPT ![g] = Append(@, "CopyError")]
    /\ UNCHANGED <<profile, running, req, loc, outbound, call>>

Next ==
    \E g \in Handlers :
        \/ Accept(g)
        \/ ValidateScheme(g)
        \/ ExtractHost(g)
        \/ SanitizeRequest(g)
        \/ MatchStep(g)
        \/ SelectTransport(g)
        \/ IssueRequest(g)
        \/ UpstreamFails(g)
        \/ UpstreamResponds(g)
        \/ RelayHeader(g)
        \/ CopyChunk(g)
        \/ CopyEnds(g)
        \/ CopyFails(g)

\* The server built from main.go.
Spec == Init /\ [][Next]_vars

\* The steps of the handler running in g. The Go scheduler runs every
\* goroutine that can run; client.Do and io.Copy are taken to return.
HandlerStep(g) ==
    \/ ValidateScheme(g)
    \/ ExtractHost(g)
    \/ SanitizeRequest(g)
    \/ MatchStep(g)
    \/ SelectTransport(g)
    \/ IssueRequest(g)
    \/ UpstreamFails(g)
    \/ UpstreamResponds(g)
    \/ RelayHeader(g)
    \/ CopyChunk(g)
    \/ CopyEnds(g)
    \/ CopyFails(g)

\* The server with one connection open: its goroutine handles one request
\* after the other. Handlers share nothing but the profile, which none of
\* them writes, so what one handler does on its own it does beside others.
NextSerial == Accept("g1") \/ HandlerStep("g1")

SpecLive == Init /\ [][NextSerial]_vars /\ WF_vars(HandlerStep("g1"))

\* The server built from the other main package (part_001), whose handler
\* differs in the failure branch of the host:port split.
NextFatal ==
    \E g \in Handlers :
        \/ Accept(g)
        \/ ValidateScheme(g)
        \/ ExtractHostFatal(g)
        \/ SanitizeRequest(g)
        \/ MatchStep(g)
        \/ SelectTransport(g)
        \/ IssueRequest(g)
        \/ UpstreamFails(g)
        \/ UpstreamResponds(g)
        \/ RelayHeader(g)
        \/ CopyChunk(g)
        \/ CopyEnds(g)
        \/ CopyFails(g)

SpecFatal == Init /\ [][NextFatal]_vars

\* ------------------------------------------------------------ helper calls
\* The helper functions on their own, each called once on arguments drawn
\* from the sets below.
W_TE == <<"T","E">>
W_Upgrade == <<"U","p","g","r","a","d","e">>
W_keepalive == <<"k","e","e","p","-","a","l","i","v","e">>
W_ProxyConnection == <<"P","r","o","x","y","-","C","o","n","n","e","c","t","i","o","n">>
W_transferencoding == <<"t","r","a","n","s","f","e","r","-","e","n","c","o","d","i","n","g">>
W_XFF == <<"X","-","F","o","r","w","a","r","d","e","d","-","F","o","r">>
WireNames == {W_te, W_TE, W_Upgrade, W_keepalive, W_KEEPALIVE, W_ProxyConnection,
              W_transferencoding, W_xff, W_XFF, W_Accept}
WireLines == {Line(n, v) : n \in WireNames, v \in {V_a, V_b, V_ab}}
WireHeaders == SeqsUpTo(WireLines, MaxHeaders)

\* Profiles over every list of distinct patterns; a rule is named after its
\* position and has an upstream of its own.
RuleNames == <<"rule1", "rule2", "rule3", "rule4">>
RulePorts == <<"1081", "1082", "1083", "1084">>
PatternLists ==
    {q \in SeqsUpTo(Patterns, MaxPatterns) :
        \A i, j \in 1..Len(q) : q[i] = q[j] => i = j}
MkRule(i, ptns) == [Name |-> RuleNames[i], ProxyType |-> "socks5",
                    ProxyIP |-> "127.0.0.1", Port |-> RulePorts[i],
                    Patterns |-> ptns]
Profiles ==
    {[Rules |-> [i \in 1..Len(q) |-> MkRule(i, q[i])]] :
        q \in SeqsUpTo(PatternLists, MaxRules)}

\* The header lines copyHeader's two maps are built from.
CopyNames == {W_Accept, W_xff, W_XFF}
CopyLines == {Line(n, v) : n \in CopyNames, v \in {V_a, V_b}}
CopyHeaders == SeqsUpTo(CopyLines, MaxHeaders)

NewCall(fn, a, b) == [fn |-> fn, a |-> a, b |-> b, done |-> FALSE, ret |-> <<>>]

InitFn ==
    /\ profile = [Rules |-> <<>>]
    /\ HandlersIdle
    /\ \/ \E p \in Profiles, h \in Hosts : call = NewCall("MatchRule", p, h)
       \/ \E l \in WireHeaders : call = NewCall("removeHopByHopHeader", l, <<>>)
       \/ \E l \in WireHeaders, h \in {<<"c">>, OneZero} :
             call = NewCall("addHost2XForwardHeader", l, h)
       \/ \E d \in CopyHeaders, l \in CopyHeaders :
             call = NewCall("copyHeader", d, l)

CallMatchRule ==
    /\ call.fn = "MatchRule" /\ ~call.done
    /\ call' = [call EXCEPT !.done = TRUE, !.ret = MatchRule(call.a, call.b)]
    /\ UNCHANGED <<profile, running, pc, req, wr, loc, outbound, trace>>

CallRemoveHopByHopHeader ==
    /\ call.fn = "removeHopByHopHeader" /\ ~call.done
    /\ call' = [call EXCEPT !.done = TRUE,
                            !.ret = removeHopByHopHeader(ReadMIMEHeader(call.a))]
    /\ UNCHANGED <<profile, running, pc, req, wr, loc, outbound, trace>>

CallAddHost2XForwardHeader ==
    /\ call.fn = "addHost2XForwardHeader" /\ ~call.done
    /\ call' = [call EXCEPT !.done = TRUE,
                            !.ret = addHost2XForwardHeader(ReadMIMEHeader(call.a),
                                                           call.b)]
    /\ UNCHANGED <<profile, running, pc, req, wr, loc, outbound, trace>>

\* copyHeader(dst, src) on two maps of their own; ret holds both maps as
\* they are after the call.
CallCopyHeader ==
    /\ call.fn = "copyHeader" /\ ~call.done
    /\ LET dst == ReadMIMEHeader(call.a)
           src == ReadMIMEHeader(call.b)
       IN  call' = [call EXCEPT !.done = TRUE,
                                !.ret = [dst |-> copyHeader(dst, src), src |-> src]]
    /\ UNCHANGED <<profile, running, pc, req, wr, loc, outbound, trace>>

NextFn ==
    \/ CallMatchRule
    \/ CallRemoveHopByHopHeader
    \/ CallAddHost2XForwardHeader
    \/ CallCopyHeader

SpecFn == InitFn /\ [][NextFn]_vars

\* ------------------------------------------------------------ what the claims speak of
\* CIDR notation read off the text: the prefix pre that marks the family,
\* an address of w binary digits, a slash, and a prefix length of at most
\* w. A host lies in the block if it is an address of the same family that
\* agrees with the pattern's address on the first n bits.
IsAddressOf(t, pre, w) ==
    /\ Len(t) = Len(pre) + w
    /\ SubSeq(t, 1, Len(pre)) = pre
    /\ \A i \in 1..w : t[Len(pre) + i] \in {"0", "1"}
IsCIDROf(ptn, pre, w) ==
    /\ Len(ptn) = Len(pre) + w + 2
    /\ IsAddressOf(SubSeq(ptn, 1, Len(pre) + w), pre, w)
    /\ ptn[Len(pre) + w + 1] = "/"
    /\ \E n \in 0..w : ptn[Len(ptn)] = Digits[n + 1]
IsCIDR(ptn) == IsCIDROf(ptn, <<>>, AddrBits) \/ IsCIDROf(ptn, <<":">>, AddrBits + 1)
PrefixLength(ptn) == CHOOSE n \in 0..9 : ptn[Len(ptn)] = Digits[n + 1]
InBlockOf(h, ptn, pre, w) ==
    /\ IsCIDROf(ptn, pre, w)
    /\ IsAddressOf(h, pre, w)
    /\ \A i \in 1..PrefixLength(ptn) : h[Len(pre) + i] = ptn[Len(pre) + i]
InBlock(h, ptn) ==
    InBlockOf(h, ptn, <<>>, AddrBits) \/ InBlockOf(h, ptn, <<":">>, AddrBits + 1)

\* The patterns of a profile by position <<rule, pattern>>, in the order
\* of evaluation.
Positions(p) ==
    UNION {{<<i, j>> : j \in 1..Len(p.Rules[i].Patterns)} : i \in 1..Len(p.Rules)}
Before(x, y) == x[1] < y[1] \/ (x[1] = y[1] /\ x[2] < y[2])
PatternAt(p, x) == p.Rules[x[1]].Patterns[x[2]]
Hits(p, h) == {x \in Positions(p) : InBlock(h, PatternAt(p, x))}
Malformed(p) == {x \in Positions(p) : ~IsCIDR(PatternAt(p, x))}
FirstOf(S) == CHOOSE x \in S : \A y \in S : y = x \/ Before(x, y)
\* Evaluation reaches a malformed pattern before any pattern holding h.
ReachesMalformed(p, h) ==
    \E b \in Malformed(p) : \A x \in Hits(p, h) : Before(b, x)

FirstMatchResult(p, h) ==
    IF Hits(p, h) # {}
    THEN [rule |-> p.Rules[FirstOf(Hits(p, h))[1]], err |-> ErrNil]
    ELSE [rule |-> ZeroRule, err |-> ErrNotFoundRule]

MatchRuleCalled == call.fn = "MatchRule" /\ call.done

\* C1 as stated: for every rule set and host, MatchRule returns the first
\* rule (in rule, then pattern order) with a pattern holding the host, and
\* NoMatch if no pattern holds it.
C1_AsStated ==
    MatchRuleCalled => call.ret = FirstMatchResult(call.a, call.b)

\* C1 amended: the same, for every rule set and host such that evaluation
\* reaches no malformed pattern before the first pattern holding the host
\* (none at all, if no pattern holds it).
C1_FirstMatchWins ==
    MatchRuleCalled /\ ~ReachesMalformed(call.a, call.b)
        => call.ret = FirstMatchResult(call.a, call.b)

\* The first pattern holding the host is the second pattern of the second
\* rule, after a well-formed pattern of the first rule that does not hold it.
C1_Witness ==
    /\ MatchRuleCalled
    /\ Hits(call.a, call.b) # {}
    /\ FirstOf(Hits(call.a, call.b)) = <<2, 2>>
    /\ Len(call.a.Rules[1].Patterns) > 0
    /\ ~ReachesMalformed(call.a, call.b)
    /\ call.ret.rule.Name = "rule2"

Has(tr, e) == \E i \in 1..Len(tr) : tr[i] = e

\* C2: when evaluation reaches a malformed pattern before any pattern
\* holding the request host, MatchRule returns an error that is not the
\* NoMatch sentinel and no rule, and the handler answers 500 without an
\* outbound request.
C2_MalformedPatternFails ==
    \A g \in Handlers :
        Has(trace[g], "MatchRule") /\ ReachesMalformed(profile, loc[g].host)
            => /\ loc[g].err \notin {ErrNil, ErrNotFoundRule}
               /\ loc[g].rule = ZeroRule
               /\ pc[g] = "done"
               /\ wr[g].wroteHeader /\ wr[g].status = StatusInternalServerError
               /\ outbound[g] = <<>>

\* A request whose host lies in a later pattern, behind a malformed one.
C2_Witness ==
    \E g \in Handlers :
        /\ Has(trace[g], "MatchRule")
        /\ ReachesMalformed(profile, loc[g].host)
        /\ Hits(profile, loc[g].host) # {}
        /\ wr[g].status = StatusInternalServerError

\* Header names are compared without regard to letter case.
EqualFold(a, b) ==
    Len(a) = Len(b) /\ \A i \in 1..Len(a) : ToLower(a[i]) = ToLower(b[i])
\* The values the header lines give for a name, in wire order.
ValuesOf(lines, name) ==
    LET sel == SelectSeq(lines, LAMBDA l : EqualFold(l.name, name))
    IN  [i \in 1..Len(sel) |-> sel[i].value]
IsHopByHop(name) ==
    \E n \in {K_ProxyConnection, K_KeepAlive, K_TE, K_TransferEncoding, K_Upgrade} :
        EqualFold(name, n)

AddHostCalled == call.fn = "addHost2XForwardHeader" /\ call.done

\* C3: addHost2XForwardHeader leaves X-Forwarded-For with one value: the
\* prior entries in their order, then the host, joined by ", "; the host
\* alone if there was no X-Forwarded-For entry.
C3_AppendForwardedFor ==
    AddHostCalled =>
        /\ K_XForwardedFor \in DOMAIN call.ret
        /\ call.ret[K_XForwardedFor] =
             <<Join(ValuesOf(call.a, K_XForwardedFor) \o <<call.b>>, CommaSpace)>>

RemoveHopCalled == call.fn = "removeHopByHopHeader" /\ call.done

\* C6: removeHopByHopHeader removes every entry named Proxy-Connection,
\* Keep-Alive, TE, Transfer-Encoding or Upgrade, in whatever letter case the
\* name came, and leaves every other name with its values in their order.
C6_StripHopByHop ==
    RemoveHopCalled =>
        LET header == ReadMIMEHeader(call.a)
        IN  /\ \A i \in 1..Len(call.a) :
                  IsHopByHop(call.a[i].name)
                      => \A k \in DOMAIN call.ret : ~EqualFold(k, call.a[i].name)
            /\ \A k \in DOMAIN call.ret : k \in DOMAIN header
            /\ \A k \in DOMAIN header :
                  ~IsHopByHop(k)
                      => /\ k \in DOMAIN call.ret
                         /\ call.ret[k] = header[k]
                         /\ call.ret[k] = ValuesOf(call.a, k)

\* A lower-case "te" is removed and "Accept" is kept.
C6_Witness ==
    /\ RemoveHopCalled
    /\ Len(call.a) = 2
    /\ call.a[1].name = W_te
    /\ call.a[2].name = W_Accept
    /\ DOMAIN call.ret = {W_Accept}
    /\ call.ret[W_Accept] = <<call.a[2].value>>

\* C4: a request whose target scheme is neither http nor https is answered
\* 400, and for it there is no outbound call, no rule match and no
\* transport construction.
C4_UnsupportedScheme ==
    \A g \in Handlers :
        pc[g] \notin {"idle", "scheme"} /\ req[g].Scheme \notin {"http", "https"}
            => /\ pc[g] = "done"
               /\ wr[g].wroteHeader /\ wr[g].status = StatusBadRequest
               /\ outbound[g] = <<>>
               /\ ~Has(trace[g], "MatchRule")
               /\ ~Has(trace[g], "SelectTransport")
               /\ ~Has(trace[g], "Do")
               /\ loc[g].client = NoClient

\* An ftp request has been answered.
C4_Witness ==
    \E g \in Handlers :
        req[g].Scheme = "ftp" /\ pc[g] = "done" /\ wr[g].status = StatusBadRequest

\* C5: every outbound request goes through the client the match result of
\* its own host calls for: a SOCKS5 client bound to the matched rule's
\* ProxyIP:Port with no credentials, or a direct client on NoMatch.
C5_TransportFollowsMatch ==
    \A g \in Handlers :
        \A i \in 1..Len(outbound[g]) :
            LET m == MatchRule(profile, loc[g].host)
                c == outbound[g][i].client
            IN  /\ m.err \in {ErrNil, ErrNotFoundRule}
                /\ m = [rule |-> loc[g].rule, err |-> loc[g].err]
                /\ m.err = ErrNil
                     => c = [kind |-> "socks5",
                             address |-> <<m.rule.ProxyIP, ":", m.rule.Port>>,
                             auth |-> "nil"]
                /\ m.err = ErrNotFoundRule => c = DirectClient

\* One request is out through the upstream of the profile's second rule
\* while another is out through a direct client.
C5_Witness ==
    \E g, h \in Handlers :
        /\ Len(profile.Rules) = 2
        /\ Len(outbound[g]) = 1 /\ Len(outbound[h]) = 1
        /\ outbound[g][1].client.kind = "socks5"
        /\ outbound[g][1].client.address =
             <<profile.Rules[2].ProxyIP, ":", profile.Rules[2].Port>>
        /\ profile.Rules[1].ProxyIP # profile.Rules[2].ProxyIP
        /\ outbound[h][1].client = DirectClient

\* C7: no request failure ends the process: the server keeps running, and
\* a handler that has returned has written a status code.
C7_NoFailureIsFatal ==
    /\ running
    /\ \A g \in Handlers : pc[g] = "done" => wr[g].wroteHeader

SameResult(g, h) == loc[g].rule = loc[h].rule /\ loc[g].err = loc[h].err

\* C8: no step changes the profile, and two requests for the same host,
\* however their handlers interleave, get the same match result.
C8_ProfileNeverMutated ==
    /\ [][profile' = profile]_vars
    /\ [](\A g, h \in Handlers :
            /\ Has(trace[g], "MatchRule") /\ Has(trace[h], "MatchRule")
            /\ loc[g].host = loc[h].host
            => SameResult(g, h))

\* Two requests for the same host have been matched to a rule, one after
\* the other has already gone out.
C8_Witness ==
    \E g, h \in Handlers :
        /\ g # h
        /\ pc[g] = "await" /\ pc[h] = "select"
        /\ loc[g].host = loc[h].host
        /\ loc[g].err = ErrNil /\ loc[h].err = ErrNil
        /\ Len(profile.Rules) = 2

\* C9: a request whose host matches a rule whose ProxyType is not "socks5"
\* ends in an error and is not sent through any client.
C9_UnsupportedProxyType ==
    \A g \in Handlers :
        /\ Has(trace[g], "MatchRule")
        /\ loc[g].err = ErrNil
        /\ loc[g].rule.ProxyType # "socks5"
        => /\ outbound[g] = <<>>
           /\ pc[g] = "done" => wr[g].status = StatusInternalServerError

ClientHost(g) == SplitHostPort(req[g].RemoteAddr).host
\* The last entry of a chain text whose entries are separated by ", ".
EndsWithEntry(chain, entry) ==
    LET n == Len(chain)
        m == Len(entry)
    IN  /\ n >= m
        /\ SubSeq(chain, n - m + 1, n) = entry
        /\ n > m => (n >= m + 2 /\ SubSeq(chain, n - m - 1, n - m) = CommaSpace)

\* C11: every outbound request carries an X-Forwarded-For chain whose last
\* entry is the host of the client that sent the inbound request.
C11_ForwardedForIsClientHost ==
    \A g \in Handlers :
        \A i \in 1..Len(outbound[g]) :
            LET h == outbound[g][i].Header
            IN  /\ K_XForwardedFor \in DOMAIN h
                /\ Len(h[K_XForwardedFor]) > 0
                /\ EndsWithEntry(h[K_XForwardedFor][Len(h[K_XForwardedFor])],
                                 ClientHost(g))

\* The target authority has no port: no colon stands after the host (a colon
\* inside the brackets of an IPv6 literal separates no port).
MissingPort(a) ==
    \A i \in 1..Len(a) : a[i] = ":" => \E j \in (i+1)..Len(a) : a[j] = "]"
\* The target authority has a port that is no port number.
InvalidPort(a) ==
    /\ ~MissingPort(a)
    /\ Dtoi(SubSeq(a, LastIndexOf(a, ":") + 1, Len(a))) \notin 0..65535

PipelineOrder ==
    <<"ValidateScheme", "ExtractHost", "SanitizeRequest", "MatchRule",
      "SelectTransport", "Do">>
IsPrefix(s, t) == Len(s) <= Len(t) /\ SubSeq(t, 1, Len(s)) = s
\* The handler of g has returned at step e with a 500 and no outbound call.
AbortedAt(g, e) ==
    /\ pc[g] = "done"
    /\ trace[g][Len(trace[g])] = e
    /\ wr[g].wroteHeader /\ wr[g].status = StatusInternalServerError
    /\ outbound[g] = <<>>
SchemePassed(g) ==
    Has(trace[g], "ValidateScheme") /\ req[g].Scheme \in {"http", "https"}

\* The part of C12 that does not depend on what a malformed target is: an
\* outbound request is issued only after scheme validation, host
\* extraction, sanitization, rule matching and transport selection, in
\* that order and each without failure; a match failure and a transport
\* construction failure end the request there with a 500 and no outbound
\* call.
C12_OrderAndAborts ==
    \A g \in Handlers :
        /\ IsPrefix(trace[g], PipelineOrder) \/ IsPrefix(PipelineOrder, trace[g])
        /\ outbound[g] # <<>>
             => /\ IsPrefix(PipelineOrder, trace[g])
                /\ ~MissingPort(req[g].Host)
                /\ loc[g].err \in {ErrNil, ErrNotFoundRule}
                /\ req[g].Scheme \in {"http", "https"}
        /\ Has(trace[g], "MatchRule") /\ loc[g].err \notin {ErrNil, ErrNotFoundRule}
             => AbortedAt(g, "MatchRule")
        /\ pc[g] = "done" /\ trace[g][Len(trace[g])] = "SelectTransport"
             => AbortedAt(g, "SelectTransport")

\* C12 as stated: the above, and a request whose target authority has a
\* missing or an invalid port ends at host extraction with a 500 and no
\* outbound call.
C12_AsStated ==
    /\ C12_OrderAndAborts
    /\ \A g \in Handlers :
          /\ SchemePassed(g) /\ Has(trace[g], "ExtractHost")
          /\ MissingPort(req[g].Host) \/ InvalidPort(req[g].Host)
          => AbortedAt(g, "ExtractHost")

\* C12 amended: the above, and a request whose target authority has no
\* port ends at host extraction with a 500 and no outbound call.
C12_SequentialEarlyExit ==
    /\ C12_OrderAndAborts
    /\ \A g \in Handlers :
          /\ SchemePassed(g) /\ Has(trace[g], "ExtractHost")
          /\ MissingPort(req[g].Host)
          => AbortedAt(g, "ExtractHost")

\* One request has gone out after the steps before it, while a request
\* with no port in its target has been answered 500.
C12_Witness ==
    \E g, h \in Handlers :
        /\ IsPrefix(PipelineOrder, trace[g]) /\ Len(outbound[g]) = 1
        /\ MissingPort(req[h].Host) /\ AbortedAt(h, "ExtractHost")

\* A request whose target has a port out of range has gone out.
C12_InvalidPortGoesOut ==
    \E g \in Handlers : InvalidPort(req[g].Host) /\ Len(outbound[g]) = 1

NoHopByHop(header) == \A k \in DOMAIN header : ~IsHopByHop(k)

\* C13: the header of every outbound request, as it is when the request is
\* issued, has no entry named Proxy-Connection, Keep-Alive, TE,
\* Transfer-Encoding or Upgrade, and neither has the header written to the
\* client with the status code; the other entries of the upstream response
\* are in it.
C13_NoHopByHopForwarded ==
    \A g \in Handlers :
        /\ \A i \in 1..Len(outbound[g]) : NoHopByHop(outbound[g][i].Header)
        /\ wr[g].wroteHeader => NoHopByHop(wr[g].sent)
        /\ Has(trace[g], "RelayHeader")
             => /\ NoHopByHop(wr[g].sent)
                /\ \A k \in DOMAIN loc[g].res.Header :
                      k \in DOMAIN wr[g].sent /\ wr[g].sent[k] = loc[g].res.Header[k]

\* A request that came with "te" has gone out, and the response to it, which
\* came with "KEEP-ALIVE" and "Accept", has been relayed with "Accept".
C13_Witness ==
    \E g \in Handlers :
        /\ req[g].Host = A_Name
        /\ Len(outbound[g]) = 1
        /\ K_XForwardedFor \in DOMAIN outbound[g][1].Header
        /\ Has(trace[g], "RelayHeader")
        /\ loc[g].res.Body = BodyOf(MaxBody)
        /\ W_Accept \in DOMAIN wr[g].sent

\* C14: in a request that has reached the relay step, what has been written
\* to the client's body is a prefix of the upstream body, and all of it
\* once the copy has ended without error; a failed copy adds nothing else.
C14_BodyByteForByte ==
    \A g \in Handlers :
        Has(trace[g], "RelayHeader")
            => /\ IsPrefix(wr[g].body, loc[g].res.Body)
               /\ Has(trace[g], "CopyEnd") => wr[g].body = loc[g].res.Body

\* C15: the handler calls WriteHeader at most once for a request, and once
\* the upstream status code is written the response header stays as it was
\* written.
C15_StatusWrittenOnce ==
    \A g \in Handlers :
        /\ wr[g].writeHeaderCalls <= 1
        /\ Has(trace[g], "RelayHeader")
             => /\ wr[g].status = loc[g].res.StatusCode
                /\ wr[g].Header = wr[g].sent

\* A host that is no IP literal: a DNS name.
IsName(h) ==
    ~IsAddressOf(h, <<>>, AddrBits) /\ ~IsAddressOf(h, <<":">>, AddrBits + 1)
MatchedName(g) == Has(trace[g], "MatchRule") /\ IsName(loc[g].host)
ViaDirectOnly(g) ==
    /\ \A i \in 1..Len(outbound[g]) : outbound[g][i].client = DirectClient
    /\ Has(trace[g], "SelectTransport") => loc[g].client = DirectClient

\* C16 as stated: for a request whose host is a DNS name MatchRule returns
\* no rule and the NoMatch sentinel, whatever the patterns are, and the
\* request goes through the direct client.
C16_AsStated ==
    \A g \in Handlers :
        MatchedName(g)
            => /\ loc[g].rule = ZeroRule
               /\ loc[g].err = ErrNotFoundRule
               /\ pc[g] # "done" \/ Has(trace[g], "SelectTransport")
               /\ ViaDirectOnly(g)

\* C16 amended: for a request whose host is a DNS name MatchRule never
\* returns a rule; if no pattern of the rule set is malformed it returns
\* the NoMatch sentinel and the request goes through the direct client; if
\* some pattern is malformed it returns the parse error and the request is
\* answered 500 with no outbound call.
C16_NameNeverMatches ==
    \A g \in Handlers :
        MatchedName(g)
            => /\ loc[g].rule = ZeroRule
               /\ loc[g].err # ErrNil
               /\ ViaDirectOnly(g)
               /\ Malformed(profile) = {}
                    => /\ loc[g].err = ErrNotFoundRule
                       /\ pc[g] # "done" \/ Has(trace[g], "SelectTransport")
               /\ Malformed(profile) # {}
                    => /\ loc[g].err \notin {ErrNil, ErrNotFoundRule}
                       /\ AbortedAt(g, "MatchRule")

\* A request for a DNS name has gone out through the direct client past
\* two rules with well-formed patterns.
C16_Witness ==
    \E g \in Handlers :
        /\ MatchedName(g)
        /\ Len(profile.Rules) = 2
        /\ Malformed(profile) = {}
        /\ Len(outbound[g]) = 1
        /\ outbound[g][1].client = DirectClient

CopyHeaderCalled == call.fn = "copyHeader" /\ call.done
\* The names the header lines give, as keys.
NamesOf(lines) == {CanonicalMIMEHeaderKey(lines[i].name) : i \in 1..Len(lines)}

\* C17: after copyHeader(dst, src) dst has, for every name, the values it
\* had before followed by the values src has for the name, in src's
\* order; it has no other name; src is as it was.
C17_CopyHeaderAdditive ==
    CopyHeaderCalled =>
        /\ DOMAIN call.ret.dst = NamesOf(call.a) \cup NamesOf(call.b)
        /\ \A k \in DOMAIN call.ret.dst :
              call.ret.dst[k] = ValuesOf(call.a, k) \o ValuesOf(call.b, k)
        /\ \A k \in DOMAIN ReadMIMEHeader(call.a) :
              IsPrefix(ReadMIMEHeader(call.a)[k], call.ret.dst[k])
        /\ call.ret.src = ReadMIMEHeader(call.b)

\* dst had one value for X-Forwarded-For and one for Accept, src has two
\* values for X-Forwarded-For: dst ends with three and one.
C17_Witness ==
    /\ CopyHeaderCalled
    /\ call.a = <<Line(W_xff, V_a), Line(W_Accept, V_b)>>
    /\ call.b = <<Line(W_XFF, V_b), Line(W_xff, V_a)>>
    /\ call.ret.dst[K_XForwardedFor] = <<V_a, V_b, V_a>>
    /\ call.ret.dst[W_Accept] = <<V_b>>

\* What the handler of g has answered: a 400 for an unsupported scheme, a
\* 500 for a failure of host extraction, rule matching, transport
\* construction or the outbound request, or the upstream's status code.
Answered400(g) ==
    /\ req[g].Scheme \notin {"http", "https"}
    /\ wr[g].wroteHeader /\ wr[g].status = StatusBadRequest
    /\ wr[g].writeHeaderCalls = 1
Answered500(g) ==
    /\ ~Has(trace[g], "RelayHeader")
    /\ trace[g][Len(trace[g])] \in {"ExtractHost", "MatchRule", "SelectTransport", "DoError"}
    /\ req[g].Scheme \in {"http", "https"}
    /\ wr[g].wroteHeader /\ wr[g].status = StatusInternalServerError
    /\ wr[g].writeHeaderCalls = 1
AnsweredUpstream(g) ==
    /\ Has(trace[g], "RelayHeader")
    /\ wr[g].wroteHeader /\ wr[g].status = loc[g].res.StatusCode
ExactlyOneAnswer(g) ==
    \/ Answered400(g) /\ ~Answered500(g) /\ ~AnsweredUpstream(g)
    \/ ~Answered400(g) /\ Answered500(g) /\ ~AnsweredUpstream(g)
    \/ ~Answered400(g) /\ ~Answered500(g) /\ AnsweredUpstream(g)

\* C18: every request a handler has started is in the end one the handler
\* has returned from, and a handler that has returned has written exactly
\* one of: a 400 (unsupported scheme), a 500 (malformed target, match
\* failure, transport construction failure, upstream failure), the
\* upstream status code.
C18_EveryRequestAnswered ==
    /\ [](\A g \in Handlers : pc[g] = "done" => ExactlyOneAnswer(g))
    /\ \A g \in Handlers : (pc[g] # "idle") ~> (pc[g] = "done")

\* A handler has returned after relaying an upstream 500 whose copy failed.
C18_Witness ==
    \E g \in Handlers :
        /\ pc[g] = "done" /\ AnsweredUpstream(g)
        /\ Has(trace[g], "CopyError")
        /\ wr[g].status = StatusInternalServerError
        /\ wr[g].writeHeaderCalls = 2

=============================================================================
